---- MODULE Spec2Model ----
(***************************************************************************)
(* The roborev terminal dashboard (package tui): the bubbletea Model, its  *)
(* Update reducer, the commands it returns and the render arithmetic of    *)
(* the two screens.                                                        *)
(*                                                                         *)
(* Go strings that the code cuts, measures or concatenates are sequences   *)
(* of one-character strings; a Go pointer or error is Nil (<<>>) or a      *)
(* one-element sequence <<x>>.                                             *)
(***************************************************************************)
EXTENDS Integers, Sequences, FiniteSets, TLC

VARIABLES
    jobs,           \* Model.jobs: sequence of ReviewJob
    status,         \* Model.status: DaemonStatus
    selectedIdx,    \* Model.selectedIdx
    currentView,    \* Model.currentView
    currentReview,  \* Model.currentReview: Nil or <<Review>>
    reviewScroll,   \* Model.reviewScroll
    width,          \* Model.width
    height,         \* Model.height
    err,            \* Model.err: Nil or <<message>>
    cmd,            \* the tea.Cmd the last call returned (a batch is a sequence)
    inflight,       \* commands launched and not yet completed, per kind
    quit,           \* the program has ended (tea.Quit was returned)
    enterPressed    \* history: "enter" was pressed on the Queue screen since
                    \* that screen last became active

model == <<jobs, status, selectedIdx, currentView, currentReview,
           reviewScroll, width, height, err>>
vars == <<jobs, status, selectedIdx, currentView, currentReview,
          reviewScroll, width, height, err, cmd, inflight, quit, enterPressed>>

----------------------------------------------------------------------------
(* Bounds of the model *)

MaxJobs == 3        \* longest job list the daemon returns
MaxScroll == 2      \* largest scroll offset the operator scrolls to
MaxPending == 3     \* most fetches in flight at once

----------------------------------------------------------------------------
(* Values *)

Nil == <<>>
Ptr(x) == <<x>>

Min(a, b) == IF a < b THEN a ELSE b
Max(a, b) == IF a > b THEN a ELSE b

viewQueue == 0
viewReview == 1

JobStatusQueued == "queued"
JobStatusDone == "done"
JobStatusFailed == "failed"

ReviewJob(id, st, errText) ==
    [ID |-> id, Status |-> st, Agent |-> "codex", Error |-> errText]

\* the jobs the daemon knows, one for each branch of "enter": Update tests the
\* status for done and for failed only, and job 1 has neither
JobPool ==
    { ReviewJob(1, JobStatusQueued, <<>>),
      ReviewJob(2, JobStatusDone, <<>>),
      ReviewJob(3, JobStatusFailed, <<"p", " ", "n">>) }

RECURSIVE SeqsUpTo(_, _)
SeqsUpTo(S, n) ==
    IF n = 0 THEN {<<>>}
    ELSE LET shorter == SeqsUpTo(S, n - 1)
         IN shorter \cup {Append(s, x) : s \in shorter, x \in S}

Distinct(s) == \A i, j \in 1..Len(s) : i # j => s[i].ID # s[j].ID

\* bodies of GET /api/jobs: each job at most once, in any order
JobLists == {l \in SeqsUpTo(JobPool, MaxJobs) : Distinct(l)}

DaemonStatus(active, queued) ==
    [ActiveWorkers |-> active, MaxWorkers |-> 4, QueuedJobs |-> queued,
     RunningJobs |-> active, CompletedJobs |-> 0, FailedJobs |-> 0]

ZeroStatus ==
    [ActiveWorkers |-> 0, MaxWorkers |-> 0, QueuedJobs |-> 0,
     RunningJobs |-> 0, CompletedJobs |-> 0, FailedJobs |-> 0]

\* bodies of GET /api/status
Statuses == {ZeroStatus, DaemonStatus(1, 2)}

Review(agent, output, job) == [Agent |-> agent, Output |-> output, Job |-> job]

\* bodies of GET /api/review: a one-line review and one that wraps
ServerReviews ==
    { Review("codex", <<"o", "k">>, Ptr(ReviewJob(2, JobStatusDone, <<>>))),
      Review("codex", <<"a", "b", " ", "c", "\n", "\n", "d">>, Nil) }

ErrTransport == "connection refused"
ErrNotFound == "no review found"

\* terminal sizes a tea.WindowSizeMsg reports, <<width, height>>: the size
\* NewModel assumes and a terminal too small for either screen
Sizes == {<<80, 24>>, <<3, 4>>}

\* the keys Update names, and the keys the operator presses
NamedKeys == {"ctrl+c", "q", "up", "k", "down", "j", "enter", "esc"}
Keys == NamedKeys \cup {"x"}

----------------------------------------------------------------------------
(* Text wrapping and the Review screen's window *)

RECURSIVE Split(_)
\* strings.Split(text, "\n")
Split(text) ==
    IF \A i \in 1..Len(text) : text[i] # "\n" THEN <<text>>
    ELSE LET n == CHOOSE i \in 1..Len(text) :
                      text[i] = "\n" /\ \A j \in 1..(i - 1) : text[j] # "\n"
         IN <<SubSeq(text, 1, n - 1)>> \o Split(SubSeq(text, n + 1, Len(text)))

RECURSIVE TrimLeft(_)
\* strings.TrimLeft(s, " ")
TrimLeft(s) ==
    IF s # <<>> /\ s[1] = " " THEN TrimLeft(Tail(s)) ELSE s

\* the inner for loop of wrapText: the last i in (w/2, w] with i < len(line) and
\* line[i] a space (Go indexes from 0), else w
BreakPoint(line, w) ==
    LET cand == {i \in ((w \div 2) + 1)..w : i < Len(line) /\ line[i + 1] = " "}
    IN IF cand = {} THEN w ELSE CHOOSE i \in cand : \A j \in cand : j <= i

RECURSIVE WrapLineDropsBreakChar(_, _)
\* a wrap that takes the character at the break for a space and skips it
WrapLineDropsBreakChar(line, w) ==
    IF Len(line) > w
    THEN LET bp == BreakPoint(line, w)
         IN <<SubSeq(line, 1, bp)>>
                \o WrapLineDropsBreakChar(
                       TrimLeft(SubSeq(line, bp + 2, Len(line))), w)
    ELSE IF Len(line) > 0 THEN <<line>> ELSE <<>>

RECURSIVE WrapLine(_, _)
\* the loop "for len(line) > width" of wrapText and the remainder after it
WrapLine(line, w) ==
    IF Len(line) > w
    THEN LET bp == BreakPoint(line, w)
         IN <<SubSeq(line, 1, bp)>>
                \o WrapLine(TrimLeft(SubSeq(line, bp + 1, Len(line))), w)
    ELSE IF Len(line) > 0 THEN <<line>> ELSE <<>>

RECURSIVE WrapLines(_, _)
WrapLines(ls, w) ==
    IF ls = <<>> THEN <<>>
    ELSE (IF Len(Head(ls)) <= w THEN <<Head(ls)>> ELSE WrapLine(Head(ls), w))
             \o WrapLines(Tail(ls), w)

DefaultWrapWidth == 100

wrapText(text, w) ==
    WrapLines(Split(text), IF w <= 0 THEN DefaultWrapWidth ELSE w)

MaxWrapWidth == 100

\* renderReviewView: wrapWidth := min(m.width-2, 100)
WrapWidth(wd) == Min(wd - 2, MaxWrapWidth)

\* renderReviewView: lines := wrapText(review.Output, wrapWidth)
ReviewLines(review, wd) == wrapText(review.Output, WrapWidth(wd))

\* the offset used as it is stored
ReviewStartUnclamped(scroll, nLines) == scroll

\* renderReviewView: start := m.reviewScroll, pulled back to the last line
ReviewStart(scroll, nLines) ==
    IF scroll >= nLines THEN Max(0, nLines - 1) ELSE scroll

----------------------------------------------------------------------------
(* Commands and the runtime that launches them *)

Ops == {"tick", "fetchJobs", "fetchStatus", "fetchReview"}

Cmd(op, arg) == [op |-> op, arg |-> arg]

tick == Cmd("tick", 0)
fetchJobs == Cmd("fetchJobs", 0)
fetchStatus == Cmd("fetchStatus", 0)
fetchReview(jobID) == Cmd("fetchReview", jobID)
Quit == Cmd("Quit", 0)
WindowSize == Cmd("WindowSize", 0)

\* a nil tea.Cmd
NoCmd == <<>>

Count(c, op) == Cardinality({i \in 1..Len(c) : c[i].op = op})

\* the runtime starts every command of the batch Update returned
Launch(c) ==
    IF c = NoCmd THEN inflight
    ELSE [op \in Ops |-> inflight[op] + Count(c, op)]

\* one command of kind op has completed and its message is being delivered
Complete(op, c) == [Launch(c) EXCEPT ![op] = @ - 1]

\* fetches started and not yet answered
Pending ==
    inflight["fetchJobs"] + inflight["fetchStatus"] + inflight["fetchReview"]

\* errors a fetch of each kind can end with
FetchErrors(op) ==
    IF op = "fetchReview" THEN {ErrTransport, ErrNotFound} ELSE {ErrTransport}

JobFailedPrefix ==
    <<"J", "o", "b", " ", "f", "a", "i", "l", "e", "d", ":", "\n", "\n">>

\* the job's error text alone, without the "Job failed:" heading
FailedReviewNoPrefix(job) ==
    Review(job.Agent, job.Error, Ptr(job))

\* Update, case "enter": the Review built from a failed job
FailedReview(job) ==
    Review(job.Agent, JobFailedPrefix \o job.Error, Ptr(job))

\* the selection kept as it was, whatever the new length
ClampSelectedNone(idx, n) == idx

\* a selection past the end sent back to the first row
ClampSelectedZero(idx, n) ==
    IF idx >= n THEN 0 ELSE idx

\* Update, case jobsMsg: the selection after the list was replaced
ClampSelected(idx, n) ==
    IF idx >= n THEN Max(0, n - 1) ELSE idx

----------------------------------------------------------------------------
(* The program *)

InitialWidth == 80
InitialHeight == 24

\* NewModel, and the batch Model.Init hands to the runtime
Init ==
    /\ jobs = <<>>
    /\ status = ZeroStatus
    /\ selectedIdx = 0
    /\ currentView = viewQueue
    /\ currentReview = Nil
    /\ reviewScroll = 0
    /\ width = InitialWidth
    /\ height = InitialHeight
    /\ err = Nil
    /\ cmd = <<WindowSize, tick, fetchJobs, fetchStatus>>
    /\ inflight = [op \in Ops |-> IF op = "fetchReview" THEN 0 ELSE 1]
    /\ quit = FALSE
    /\ enterPressed = FALSE

\* Update returns c for a message that no command produced
Return(c) ==
    /\ cmd' = c
    /\ inflight' = Launch(c)
    /\ quit' = (\E i \in 1..Len(c) : c[i] = Quit)

\* Update returns c for the message a completed command of kind op produced
ReturnFrom(op, c) ==
    /\ cmd' = c
    /\ inflight' = Complete(op, c)
    /\ quit' = (\E i \in 1..Len(c) : c[i] = Quit)

\* "q" ends the program from either screen
KeyQuitAlways(k) ==
    /\ ~quit
    /\ k \in {"ctrl+c", "q"}
    /\ Return(<<Quit>>)
    /\ UNCHANGED model

\* Update, case "ctrl+c", "q"
KeyQuit(k) ==
    /\ ~quit
    /\ k \in {"ctrl+c", "q"}
    /\ IF currentView = viewReview
       THEN /\ currentView' = viewQueue
            /\ currentReview' = Nil
            /\ reviewScroll' = 0
            /\ Return(NoCmd)
       ELSE /\ UNCHANGED <<currentView, currentReview, reviewScroll>>
            /\ Return(<<Quit>>)
    /\ UNCHANGED <<jobs, status, selectedIdx, width, height, err>>

\* Update, case "up", "k"
KeyUp(k) ==
    /\ ~quit
    /\ k \in {"up", "k"}
    /\ IF currentView = viewQueue
       THEN /\ selectedIdx' = IF selectedIdx > 0 THEN selectedIdx - 1 ELSE selectedIdx
            /\ UNCHANGED reviewScroll
       ELSE /\ reviewScroll' = IF reviewScroll > 0 THEN reviewScroll - 1 ELSE reviewScroll
            /\ UNCHANGED selectedIdx
    /\ Return(NoCmd)
    /\ UNCHANGED <<jobs, status, currentView, currentReview, width, height, err>>

\* Update, case "down", "j"
KeyDown(k) ==
    /\ ~quit
    /\ k \in {"down", "j"}
    /\ IF currentView = viewQueue
       THEN /\ selectedIdx' = IF selectedIdx < Len(jobs) - 1
                              THEN selectedIdx + 1 ELSE selectedIdx
            /\ UNCHANGED reviewScroll
       ELSE /\ reviewScroll < MaxScroll
            /\ reviewScroll' = reviewScroll + 1
            /\ UNCHANGED selectedIdx
    /\ Return(NoCmd)
    /\ UNCHANGED <<jobs, status, currentView, currentReview, width, height, err>>

\* "enter" on a done job shows the Review screen before the fetch has answered
KeyEnterOptimistic ==
    /\ ~quit
    /\ IF currentView = viewQueue /\ Len(jobs) > 0
       THEN LET job == jobs[selectedIdx + 1]
            IN IF job.Status = JobStatusDone
               THEN /\ Pending + 1 <= MaxPending
                    /\ currentView' = viewReview
                    /\ UNCHANGED <<currentReview, reviewScroll>>
                    /\ Return(<<fetchReview(job.ID)>>)
               ELSE IF job.Status = JobStatusFailed
               THEN /\ currentReview' = Ptr(FailedReview(job))
                    /\ currentView' = viewReview
                    /\ reviewScroll' = 0
                    /\ Return(NoCmd)
               ELSE /\ UNCHANGED <<currentView, currentReview, reviewScroll>>
                    /\ Return(NoCmd)
       ELSE /\ UNCHANGED <<currentView, currentReview, reviewScroll>>
            /\ Return(NoCmd)
    /\ UNCHANGED <<jobs, status, selectedIdx, width, height, err>>

\* Update, case "enter"
KeyEnter ==
    /\ ~quit
    /\ IF currentView = viewQueue /\ Len(jobs) > 0
       THEN LET job == jobs[selectedIdx + 1]
            IN IF job.Status = JobStatusDone
               THEN /\ Pending + 1 <= MaxPending
                    /\ UNCHANGED <<currentView, currentReview, reviewScroll>>
                    /\ Return(<<fetchReview(job.ID)>>)
               ELSE IF job.Status = JobStatusFailed
               THEN /\ currentReview' = Ptr(FailedReview(job))
                    /\ currentView' = viewReview
                    /\ reviewScroll' = 0
                    /\ Return(NoCmd)
               ELSE /\ UNCHANGED <<currentView, currentReview, reviewScroll>>
                    /\ Return(NoCmd)
       ELSE /\ UNCHANGED <<currentView, currentReview, reviewScroll>>
            /\ Return(NoCmd)
    /\ UNCHANGED <<jobs, status, selectedIdx, width, height, err>>

\* "esc" drops the held Review and leaves the Review screen active
KeyEscKeepsView ==
    /\ ~quit
    /\ IF currentView = viewReview
       THEN /\ currentReview' = Nil
            /\ reviewScroll' = 0
            /\ UNCHANGED currentView
       ELSE UNCHANGED <<currentView, currentReview, reviewScroll>>
    /\ Return(NoCmd)
    /\ UNCHANGED <<jobs, status, selectedIdx, width, height, err>>

\* "esc" goes back to the Queue screen and leaves the scroll offset as it is
KeyEscKeepsScroll ==
    /\ ~quit
    /\ IF currentView = viewReview
       THEN /\ currentView' = viewQueue
            /\ currentReview' = Nil
            /\ UNCHANGED reviewScroll
       ELSE UNCHANGED <<currentView, currentReview, reviewScroll>>
    /\ Return(NoCmd)
    /\ UNCHANGED <<jobs, status, selectedIdx, width, height, err>>

\* Update, case "esc"
KeyEsc ==
    /\ ~quit
    /\ IF currentView = viewReview
       THEN /\ currentView' = viewQueue
            /\ currentReview' = Nil
            /\ reviewScroll' = 0
       ELSE UNCHANGED <<currentView, currentReview, reviewScroll>>
    /\ Return(NoCmd)
    /\ UNCHANGED <<jobs, status, selectedIdx, width, height, err>>

\* Update, a key no case of the inner switch names
KeyOther(k) ==
    /\ ~quit
    /\ k \notin NamedKeys
    /\ Return(NoCmd)
    /\ UNCHANGED model

\* a resize that also scrolls the Review back to its first line
WindowSizeMsgResetsScroll(w, h) ==
    /\ ~quit
    /\ width' = w
    /\ height' = h
    /\ reviewScroll' = 0
    /\ Return(NoCmd)
    /\ UNCHANGED <<jobs, status, selectedIdx, currentView, currentReview, err>>

\* Update, case tea.WindowSizeMsg
WindowSizeMsg(w, h) ==
    /\ ~quit
    /\ width' = w
    /\ height' = h
    /\ Return(NoCmd)
    /\ UNCHANGED <<jobs, status, selectedIdx, currentView, currentReview,
                   reviewScroll, err>>

\* a tick that fetches and arms no next tick
TickMsgStops ==
    /\ ~quit
    /\ inflight["tick"] > 0
    /\ Pending + 2 <= MaxPending
    /\ ReturnFrom("tick", <<fetchJobs, fetchStatus>>)
    /\ UNCHANGED model

\* a tick that stops polling once a fetch failure is stored
TickMsgGivesUpOnError ==
    /\ ~quit
    /\ inflight["tick"] > 0
    /\ Pending + 2 <= MaxPending
    /\ IF err # Nil THEN ReturnFrom("tick", NoCmd)
       ELSE ReturnFrom("tick", <<tick, fetchJobs, fetchStatus>>)
    /\ UNCHANGED model

\* Update, case tickMsg: the armed timer fires
TickMsg ==
    /\ ~quit
    /\ inflight["tick"] > 0
    /\ Pending + 2 <= MaxPending
    /\ ReturnFrom("tick", <<tick, fetchJobs, fetchStatus>>)
    /\ UNCHANGED model

\* a job list that is dropped while another fetchJobs is still in flight
JobsMsgDropsSuperseded(list) ==
    /\ ~quit
    /\ inflight["fetchJobs"] > 0
    /\ jobs' = IF inflight["fetchJobs"] > 1 THEN jobs ELSE list
    /\ selectedIdx' = ClampSelected(selectedIdx, Len(jobs'))
    /\ ReturnFrom("fetchJobs", NoCmd)
    /\ UNCHANGED <<status, currentView, currentReview, reviewScroll,
                   width, height, err>>

\* Update, case jobsMsg: a fetchJobs ends with the decoded list
JobsMsg(list) ==
    /\ ~quit
    /\ inflight["fetchJobs"] > 0
    /\ jobs' = list
    /\ selectedIdx' = ClampSelected(selectedIdx, Len(list))
    /\ ReturnFrom("fetchJobs", NoCmd)
    /\ UNCHANGED <<status, currentView, currentReview, reviewScroll,
                   width, height, err>>

\* Update, case statusMsg: a fetchStatus ends with the decoded status
StatusMsg(st) ==
    /\ ~quit
    /\ inflight["fetchStatus"] > 0
    /\ status' = st
    /\ ReturnFrom("fetchStatus", NoCmd)
    /\ UNCHANGED <<jobs, selectedIdx, currentView, currentReview, reviewScroll,
                   width, height, err>>

\* a fetched review shown at the scroll offset of the one it replaces
ReviewMsgKeepsScroll(r) ==
    /\ ~quit
    /\ inflight["fetchReview"] > 0
    /\ currentReview' = Ptr(r)
    /\ currentView' = viewReview
    /\ ReturnFrom("fetchReview", NoCmd)
    /\ UNCHANGED <<jobs, status, selectedIdx, reviewScroll, width, height, err>>

\* Update, case reviewMsg: a fetchReview ends with the address of the decoded review
ReviewMsg(r) ==
    /\ ~quit
    /\ inflight["fetchReview"] > 0
    /\ currentReview' = Ptr(r)
    /\ currentView' = viewReview
    /\ reviewScroll' = 0
    /\ ReturnFrom("fetchReview", NoCmd)
    /\ UNCHANGED <<jobs, status, selectedIdx, width, height, err>>

\* a failed fetch that also empties the job list
ErrMsgClearsJobs(op, e) ==
    /\ ~quit
    /\ op \in Ops \ {"tick"}
    /\ inflight[op] > 0
    /\ e \in FetchErrors(op)
    /\ err' = Ptr(e)
    /\ jobs' = <<>>
    /\ selectedIdx' = 0
    /\ ReturnFrom(op, NoCmd)
    /\ UNCHANGED <<status, currentView, currentReview, reviewScroll, width, height>>

\* Update, case errMsg: a fetch of kind op ends with error e
ErrMsg(op, e) ==
    /\ ~quit
    /\ op \in Ops \ {"tick"}
    /\ inflight[op] > 0
    /\ e \in FetchErrors(op)
    /\ err' = Ptr(e)
    /\ ReturnFrom(op, NoCmd)
    /\ UNCHANGED <<jobs, status, selectedIdx, currentView, currentReview,
                   reviewScroll, width, height>>

\* the history of a step: "enter" counts while the Queue screen stays active
\* and is forgotten when the Review screen opens or closes
Noted(isEnter) ==
    enterPressed' = IF currentView = viewQueue /\ currentView' = viewQueue
                    THEN enterPressed \/ isEnter
                    ELSE FALSE

Next ==
    \/ \E k \in {"ctrl+c", "q"} : KeyQuit(k) /\ Noted(FALSE)
    \/ \E k \in {"up", "k"} : KeyUp(k) /\ Noted(FALSE)
    \/ \E k \in {"down", "j"} : KeyDown(k) /\ Noted(FALSE)
    \/ KeyEnter /\ Noted(TRUE)
    \/ KeyEsc /\ Noted(FALSE)
    \/ \E k \in Keys \ NamedKeys : KeyOther(k) /\ Noted(FALSE)
    \/ \E sz \in Sizes : WindowSizeMsg(sz[1], sz[2]) /\ Noted(FALSE)
    \/ TickMsg /\ Noted(FALSE)
    \/ \E list \in JobLists : JobsMsg(list) /\ Noted(FALSE)
    \/ \E st \in Statuses : StatusMsg(st) /\ Noted(FALSE)
    \/ \E r \in ServerReviews : ReviewMsg(r) /\ Noted(FALSE)
    \/ \E op \in Ops, e \in {ErrTransport, ErrNotFound} :
           ErrMsg(op, e) /\ Noted(FALSE)

Spec == Init /\ [][Next]_vars

\* The timer tea.Tick arms fires two seconds later whatever else happens, so a
\* tick that can be delivered again and again is delivered: strong fairness,
\* because delivery is held back only while MaxPending fetches are in flight.
FairSpec == Spec /\ SF_vars(TickMsg /\ Noted(FALSE))

----------------------------------------------------------------------------
(* Queue screen: the window of job rows renderQueueView shows *)

ReservedLines == 9
MinVisibleJobs == 3

\* visibleJobs: the rows left for jobs at terminal height h, at least three
VisibleJobs(h) ==
    IF h - ReservedLines < MinVisibleJobs THEN MinVisibleJobs
    ELSE h - ReservedLines

\* a window centred on the selection that is cut at the end of the list
\* instead of being pulled back
QueueWindowNoPullBack(n, v, s) ==
    IF n > v
    THEN LET start0 == IF s - v \div 2 < 0 THEN 0 ELSE s - v \div 2
         IN [start |-> start0, end |-> Min(start0 + v, n)]
    ELSE [start |-> 0, end |-> n]

\* start and end of the rows shown for n jobs, v visible rows and selection s
QueueWindow(n, v, s) ==
    IF n > v
    THEN LET start0 == IF s - v \div 2 < 0 THEN 0 ELSE s - v \div 2
             end0 == start0 + v
         IN IF end0 > n THEN [start |-> n - v, end |-> n]
            ELSE [start |-> start0, end |-> end0]
    ELSE [start |-> 0, end |-> n]

\* scrollInfo: the footer under the rows, Nil when every job fits
QueueFooter(n, v, win) ==
    IF n > v
    THEN Ptr("[showing " \o ToString(win.start + 1) \o "-" \o ToString(win.end)
                 \o " of " \o ToString(n) \o "]")
    ELSE Nil

\* the window and the footer of the Queue screen in the current state
WindowNow == QueueWindow(Len(jobs), VisibleJobs(height), selectedIdx)
FooterNow == QueueFooter(Len(jobs), VisibleJobs(height), WindowNow)

MaxWindowJobs == 8

\* a job list of n queued jobs as the daemon serves it
JobsOfLen(n) == [i \in 1..n |-> ReviewJob(i, JobStatusQueued, <<>>)]

\* terminal heights that leave 3, 3, 4, 5 and 10 rows for jobs
WindowHeights == {4, 12, 13, 14, 19}

\* the Queue screen after the first job list and status were delivered;
\* the selection and the height are then moved by keys and resizes
InitWindow ==
    /\ \E n \in (0..MaxWindowJobs) \cup {100} :
           jobs = JobsOfLen(n)
    /\ selectedIdx = 0
    /\ status = DaemonStatus(1, 2)
    /\ currentView = viewQueue
    /\ currentReview = Nil
    /\ reviewScroll = 0
    /\ width = InitialWidth
    /\ height = InitialHeight
    /\ err = Nil
    /\ cmd = NoCmd
    /\ inflight = [op \in Ops |-> IF op = "tick" THEN 1 ELSE 0]
    /\ quit = FALSE
    /\ enterPressed = FALSE

NextWindow ==
    \/ \E k \in {"up", "k"} : KeyUp(k) /\ Noted(FALSE)
    \/ \E k \in {"down", "j"} : KeyDown(k) /\ Noted(FALSE)
    \/ \E h \in WindowHeights : WindowSizeMsg(InitialWidth, h) /\ Noted(FALSE)

SpecWindow == InitWindow /\ [][NextWindow]_vars

----------------------------------------------------------------------------
(* View: the frame drawn from a Model value m *)

\* the Model the program holds now
M ==
    [jobs |-> jobs, status |-> status, selectedIdx |-> selectedIdx,
     currentView |-> currentView, currentReview |-> currentReview,
     reviewScroll |-> reviewScroll, width |-> width, height |-> height,
     err |-> err]

\* what is on screen after the Go runtime has stopped the program with a panic
PanicFrame == [panic |-> TRUE]

\* strings.Repeat(s, count) panics when count is negative
RepeatPanics(count) == count < 0

Repeat(ch, count) == [i \in 1..count |-> ch]

RuleInset == 4
MaxRuleWidth == 78

\* renderQueueView: the count of "-" under the column header
RuleCount(wd) == Min(wd - RuleInset, MaxRuleWidth)

StatusColumn == 8

\* renderJobLine: padding := 8 - len(status)
Padding(st) == StatusColumn - Len(st)

\* renderJobLine, for the fields the model's jobs carry: the id, the agent
\* and the status followed by its padding when that is positive
renderJobLine(job) ==
    [ID |-> job.ID, Agent |-> job.Agent, Status |-> job.Status,
     pad |-> IF Padding(job.Status) > 0 THEN Repeat(" ", Padding(job.Status))
             ELSE <<>>]

\* the indices i of "job := m.jobs[i]" in the loop of renderQueueView
QueueRowIndices(m) ==
    LET win == QueueWindow(Len(m.jobs), VisibleJobs(m.height), m.selectedIdx)
    IN win.start..(win.end - 1)

\* renderQueueView stops with a panic: a negative Repeat count or an index
\* outside the job list
QueuePanics(m) ==
    /\ Len(m.jobs) # 0
    /\ \/ RepeatPanics(RuleCount(m.width))
       \/ \E i \in QueueRowIndices(m) : i \notin 0..(Len(m.jobs) - 1)

renderQueueView(m) ==
    LET n == Len(m.jobs)
        v == VisibleJobs(m.height)
        win == QueueWindow(n, v, m.selectedIdx)
    IN  IF QueuePanics(m) THEN PanicFrame
        ELSE [title |-> "RoboRev Queue",
              statusLine |-> <<m.status, m.width, m.height>>,
              body |-> IF n = 0 THEN <<"No jobs in queue">>
                       ELSE <<Repeat("-", RuleCount(m.width)),
                              [k \in 1..(win.end - win.start) |->
                                  [selected |-> win.start + k - 1 = m.selectedIdx,
                                   line |-> renderJobLine(m.jobs[win.start + k])]],
                              QueueFooter(n, v, win)>>,
              help |-> "up/down: navigate | enter: view review | q: quit"]

ReviewReservedLines == 5

\* renderReviewView: visibleLines := m.height - 5
VisibleLines(h) == h - ReviewReservedLines

\* renderReviewView: start, end and the number of wrapped lines
ReviewWindow(m) ==
    LET n == Len(ReviewLines(m.currentReview[1], m.width))
        start == ReviewStart(m.reviewScroll, n)
    IN [start |-> start, end |-> Min(start + VisibleLines(m.height), n), n |-> n]

\* renderReviewView: scrollInfo is written when len(lines) > visibleLines
ReviewFooterShown(m) == ReviewWindow(m).n > VisibleLines(m.height)

renderReviewView(m) ==
    LET review == m.currentReview[1]
        win == ReviewWindow(m)
    IN [title |-> IF review.Job # Nil THEN <<"Review: ", review.Agent>>
                  ELSE <<"Review">>,
        body |-> SubSeq(ReviewLines(review, m.width), win.start + 1, win.end),
        footer |-> IF ReviewFooterShown(m)
                   THEN Ptr("[" \o ToString(win.start + 1) \o "-"
                                \o ToString(win.end) \o " of "
                                \o ToString(win.n) \o " lines]")
                   ELSE Nil,
        help |-> "up/down: scroll | esc/q: back"]

View(m) ==
    IF m.currentView = viewReview /\ m.currentReview # Nil
    THEN renderReviewView(m)
    ELSE renderQueueView(m)

----------------------------------------------------------------------------
(* Review screen: wrapText over the outputs a daemon can serve *)

MaxWrapText == 5

\* review outputs of up to MaxWrapText characters: words, spaces, line breaks
WrapTexts == SeqsUpTo({"a", " ", "\n"}, MaxWrapText)

\* terminal widths that give wrap widths 1 to 4
WrapWidths == 3..6

\* a fetchReview for the selected done job is in flight on the Queue screen
InitWrap ==
    /\ jobs = <<ReviewJob(2, JobStatusDone, <<>>)>>
    /\ status = DaemonStatus(1, 2)
    /\ selectedIdx = 0
    /\ currentView = viewQueue
    /\ currentReview = Nil
    /\ reviewScroll = 0
    /\ width = InitialWidth
    /\ height = InitialHeight
    /\ err = Nil
    /\ cmd = <<fetchReview(2)>>
    /\ inflight = [op \in Ops |-> IF op \in {"tick", "fetchReview"} THEN 1 ELSE 0]
    /\ quit = FALSE
    /\ enterPressed = TRUE

NextWrap ==
    \/ \E text \in WrapTexts : ReviewMsg(Review("codex", text, Nil)) /\ Noted(FALSE)
    \/ \E wd \in WrapWidths : WindowSizeMsg(wd, InitialHeight) /\ Noted(FALSE)

SpecWrap == InitWrap /\ [][NextWrap]_vars

----------------------------------------------------------------------------
(* Properties *)

Errors == {ErrTransport, ErrNotFound}

\* the Review a non-nil currentReview points to
HeldReview == currentReview[1]

\* totalWrappedLines: the held Review's output wrapped at the current width
TotalWrappedLines == Len(ReviewLines(HeldReview, width))

\* C1: selectedIdx is in [0, len(jobs)-1] when jobs is non-empty and 0 when it
\* is empty, in every reachable state.
C1_SelectedIdxInBounds ==
    IF jobs = <<>> THEN selectedIdx = 0
    ELSE selectedIdx \in 0..(Len(jobs) - 1)

\* the selection stands on the last row of a three-job list
C1_Witness == Len(jobs) = 3 /\ selectedIdx = 2

\* C2: whenever the Review screen is active, a Review is held.
C2_ReviewHasPayload ==
    currentView = viewReview => currentReview # Nil

\* the Review screen is active on a review the daemon served
C2_Witness ==
    currentView = viewReview /\ \E r \in ServerReviews : currentReview = Ptr(r)

\* C3 as stated: on the Review screen the stored scroll offset is in
\* [0, max(0, totalWrappedLines-1)].
C3_StoredScrollWithinContent ==
    currentView = viewReview =>
        reviewScroll \in 0..Max(0, TotalWrappedLines - 1)

\* C3 amended: on the Review screen the stored scroll offset is >= 0 and the
\* start line the renderer derives from it is in [0, max(0, totalWrappedLines-1)];
\* the stored offset itself may be past the last line.
C3_RenderedStartWithinContent ==
    currentView = viewReview =>
        /\ reviewScroll >= 0
        /\ ReviewStart(reviewScroll, TotalWrappedLines)
               \in 0..Max(0, TotalWrappedLines - 1)

\* the stored offset is past the last wrapped line of the held Review
C3_Witness ==
    currentView = viewReview /\ reviewScroll > TotalWrappedLines - 1

\* C4: a step that processes a FetchFailed event overwrites the stored error
\* with the delivered one, changes no other field and issues no command.
C4_FetchFailedChangesOnlyErr ==
    [][\A op \in Ops, e \in Errors :
          ErrMsg(op, e) =>
              /\ err' = Ptr(e)
              /\ UNCHANGED <<jobs, status, selectedIdx, currentView,
                             currentReview, reviewScroll, width, height>>
              /\ cmd' = NoCmd]_vars

\* an error is stored while a job list, a status and a Review are on display
C4_Witness ==
    /\ err = Ptr(ErrNotFound)
    /\ jobs # <<>>
    /\ status # ZeroStatus
    /\ currentView = viewReview
    /\ cmd = NoCmd

\* C5: a step that processes ReviewFetched(r) ends on the Review screen,
\* holding exactly r, with scroll offset 0, from either screen.
C5_ReviewFetchedShowsPayload ==
    [][\A r \in ServerReviews :
          ReviewMsg(r) =>
              /\ currentView' = viewReview
              /\ currentReview' = Ptr(r)
              /\ reviewScroll' = 0]_vars

\* a served review without a job is held at scroll offset 0 and every
\* fetch-review has been answered
C5_Witness ==
    /\ currentView = viewReview
    /\ currentReview # Nil
    /\ HeldReview \in ServerReviews
    /\ HeldReview.Job = Nil
    /\ reviewScroll = 0
    /\ inflight["fetchReview"] = 0

\* C6: a step that processes JobsFetched(list) stores list as received and
\* sets selectedIdx to max(0, min(old selectedIdx, len(list)-1)); shrinking
\* from size k to k' < k with selectedIdx = k-1 gives max(0, k'-1).
C6_JobsFetchedReplacesAndClamps ==
    [][\A list \in JobLists :
          JobsMsg(list) =>
              /\ jobs' = list
              /\ selectedIdx' = Max(0, Min(selectedIdx, Len(list) - 1))
              /\ (Len(list) < Len(jobs) /\ selectedIdx = Len(jobs) - 1
                      => selectedIdx' = Max(0, Len(list) - 1))]_vars

\* a list is stored in an order that is not the order of the ids, with the
\* selection on its last row
C6_Witness ==
    /\ Len(jobs) = 2
    /\ jobs[1].ID > jobs[2].ID
    /\ selectedIdx = Len(jobs) - 1

\* "enter" is pressed on the Queue screen with the selection on a job of status st
EnterOn(st) ==
    /\ KeyEnter
    /\ currentView = viewQueue
    /\ Len(jobs) > 0
    /\ jobs[selectedIdx + 1].Status = st

\* C7: "enter" on a failed job goes in that step to the Review screen with a
\* Review whose output is "Job failed:\n\n" followed by the job's error text
\* and whose agent is the job's agent, at scroll offset 0, with no command.
C7_EnterOnFailedShowsError ==
    [][EnterOn(JobStatusFailed) =>
          /\ currentView' = viewReview
          /\ currentReview' # Nil
          /\ currentReview'[1].Output
                 = <<"J", "o", "b", " ", "f", "a", "i", "l", "e", "d", ":", "\n", "\n">>
                       \o jobs[selectedIdx + 1].Error
          /\ currentReview'[1].Agent = jobs[selectedIdx + 1].Agent
          /\ reviewScroll' = 0
          /\ cmd' = NoCmd
          /\ inflight' = inflight]_vars

\* the Review screen shows "Job failed:\n\np n" and no fetch-review is in flight
C7_Witness ==
    /\ currentView = viewReview
    /\ currentReview # Nil
    /\ HeldReview.Output
           = <<"J", "o", "b", " ", "f", "a", "i", "l", "e", "d", ":", "\n", "\n",
               "p", " ", "n">>
    /\ reviewScroll = 0
    /\ cmd = NoCmd
    /\ inflight["fetchReview"] = 0

\* C8: "enter" on a done job issues exactly one fetch-review with the job's id
\* and leaves the state unchanged; "enter" on a queued or running job, on an
\* empty list or on the Review screen changes nothing and issues no command.
C8_EnterOnDoneFetches ==
    [][/\ EnterOn(JobStatusDone) =>
              /\ cmd' = <<fetchReview(jobs[selectedIdx + 1].ID)>>
              /\ inflight'["fetchReview"] = inflight["fetchReview"] + 1
              /\ UNCHANGED model
       /\ (KeyEnter /\ ~EnterOn(JobStatusDone) /\ ~EnterOn(JobStatusFailed)) =>
              /\ cmd' = NoCmd
              /\ inflight' = inflight
              /\ UNCHANGED model]_vars

\* a fetch-review for job 2 was just issued and the Queue screen is still up
C8_Witness ==
    /\ cmd = <<fetchReview(2)>>
    /\ currentView = viewQueue
    /\ currentReview = Nil
    /\ inflight["fetchReview"] > 0

\* C9: on the Review screen esc, q and ctrl-c return to Queue, clear the held
\* Review, reset the scroll and do not end the program; on the Queue screen q
\* and ctrl-c end the program and esc does nothing; jobs, status and
\* selectedIdx are unchanged in every case.
C9_BackOrQuit ==
    [][/\ ((KeyEsc \/ \E k \in {"ctrl+c", "q"} : KeyQuit(k))
              /\ currentView = viewReview) =>
              /\ currentView' = viewQueue
              /\ currentReview' = Nil
              /\ reviewScroll' = 0
              /\ ~quit'
              /\ Count(cmd', "Quit") = 0
              /\ UNCHANGED <<jobs, status, selectedIdx>>
       /\ ((\E k \in {"ctrl+c", "q"} : KeyQuit(k)) /\ currentView = viewQueue) =>
              /\ quit'
              /\ cmd' = <<Quit>>
              /\ UNCHANGED <<jobs, status, selectedIdx>>
       /\ (KeyEsc /\ currentView = viewQueue) =>
              /\ ~quit'
              /\ cmd' = NoCmd
              /\ UNCHANGED model]_vars

\* the program has ended from the Queue screen with its job list in place
C9_Witness ==
    /\ quit
    /\ cmd = <<Quit>>
    /\ currentView = viewQueue
    /\ jobs # <<>>

\* C10: a step that processes a Tick leaves every field unchanged and issues
\* exactly three commands: the next tick, fetch-jobs and fetch-status.
C10_TickOnlyIssuesCommands ==
    [][TickMsg =>
          /\ UNCHANGED model
          /\ Len(cmd') = 3
          /\ Count(cmd', "tick") = 1
          /\ Count(cmd', "fetchJobs") = 1
          /\ Count(cmd', "fetchStatus") = 1]_vars

\* a tick was just processed on the Review screen with an error stored
C10_Witness ==
    /\ cmd = <<tick, fetchJobs, fetchStatus>>
    /\ currentView = viewReview
    /\ err # Nil
    /\ jobs # <<>>

\* C11: with several fetches of one kind in flight and their results delivered
\* in any order, the stored job list is the payload of the last JobsFetched
\* delivered and the stored status that of the last StatusFetched delivered:
\* each delivery stores its payload however many fetches are still in flight,
\* and no other step (a completion of another kind included) changes them.
C11_LastDeliveredWins ==
    [][/\ \A list \in JobLists : JobsMsg(list) => jobs' = list
       /\ \A st \in Statuses : StatusMsg(st) => status' = st
       /\ jobs' # jobs => \E list \in JobLists : JobsMsg(list)
       /\ status' # status => \E st \in Statuses : StatusMsg(st)]_vars

\* a job list and a status were delivered and two more fetchJobs are in flight
\* together with a fetchStatus
C11_Witness ==
    /\ inflight["fetchJobs"] = 2
    /\ inflight["fetchStatus"] = 1
    /\ Len(jobs) = 2
    /\ status # ZeroStatus

\* C12: for n jobs, v = max(height-9, 3) visible rows and selection s in [0,n):
\* if n <= v the window is [0,n) and there is no footer; if n > v then
\* start = clamp(s - v/2, 0, n - v), end = start + v, start <= s < end and the
\* footer reads "[showing start+1-end of n]"; for n = 100, v = 10, s = 50 the
\* window is [45,55) and the footer "[showing 46-55 of 100]".
C12_QueueWindow ==
    LET n == Len(jobs)
        v == Max(height - 9, 3)
        s == selectedIdx
    IN  /\ VisibleJobs(height) = v
        /\ n <= v =>
               /\ WindowNow = [start |-> 0, end |-> n]
               /\ FooterNow = Nil
        /\ n > v =>
               /\ WindowNow.start = Max(0, Min(s - v \div 2, n - v))
               /\ WindowNow.end = WindowNow.start + v
               /\ WindowNow.start <= s /\ s < WindowNow.end
               /\ FooterNow = Ptr("[showing " \o ToString(WindowNow.start + 1)
                                      \o "-" \o ToString(WindowNow.end)
                                      \o " of " \o ToString(n) \o "]")
        /\ (n = 100 /\ v = 10 /\ s = 50) =>
               /\ WindowNow = [start |-> 45, end |-> 55]
               /\ FooterNow = Ptr("[showing 46-55 of 100]")

\* the selection stands on row 50 of 100 jobs in a terminal 19 lines high
C12_Witness ==
    /\ Len(jobs) = 100
    /\ selectedIdx = 50
    /\ height = 19
    /\ currentView = viewQueue

RECURSIVE Flatten(_)
\* the concatenation of a sequence of sequences
Flatten(ss) == IF ss = <<>> THEN <<>> ELSE Head(ss) \o Flatten(Tail(ss))

RECURSIVE KeepsAll(_, _)
\* line is out[1], spaces, out[2], spaces, ..., out[k], spaces: the output
\* lines are consecutive pieces of line and only spaces between two pieces or
\* after the last are missing
KeepsAll(line, out) ==
    /\ out # <<>>
    /\ Len(Head(out)) <= Len(line)
    /\ SubSeq(line, 1, Len(Head(out))) = Head(out)
    /\ LET rest == SubSeq(line, Len(Head(out)) + 1, Len(line))
       IN \E k \in 0..Len(rest) :
              /\ \A i \in 1..k : rest[i] = " "
              /\ IF Len(out) = 1 THEN k = Len(rest)
                 ELSE KeepsAll(SubSeq(rest, k + 1, Len(rest)), Tail(out))

\* wrapText(text, w) loses nothing but spaces at its breaks
Lossless(text, w) ==
    LET ls == Split(text)
        nonSpace(c) == c # " "
    IN  /\ wrapText(text, w) = Flatten([i \in 1..Len(ls) |-> wrapText(ls[i], w)])
        /\ SelectSeq(Flatten(wrapText(text, w)), nonSpace)
               = SelectSeq(Flatten(ls), nonSpace)
        /\ \A i \in 1..Len(ls) :
               /\ KeepsAll(ls[i], wrapText(ls[i], w))
               /\ ls[i] = <<>> => wrapText(ls[i], w) = << <<>> >>

\* C13: for any text and any width >= 1 wrapText drops no non-space character:
\* the lines it produces for one input line are consecutive pieces of that line
\* with only spaces missing at the breaks, and an empty input line comes out as
\* one empty line.
C13_WrapTextLossless ==
    (currentView = viewReview /\ currentReview # Nil /\ WrapWidth(width) >= 1)
        => Lossless(HeldReview.Output, WrapWidth(width))

\* the held output "aa a\n" is wrapped at width 2 into "aa", "a" and an empty
\* line: the space at the break is gone and the empty last line is kept
C13_Witness ==
    /\ currentView = viewReview
    /\ currentReview # Nil
    /\ HeldReview.Output = <<"a", "a", " ", "a", "\n">>
    /\ WrapWidth(width) = 2
    /\ ReviewLines(HeldReview, width) = << <<"a", "a">>, <<"a">>, <<>> >>

\* C14: a stored fetch failure shows in the frame: the frame of a state with
\* an error stored differs from the frame of the state that is the same but
\* for having no error stored.
C14_StoredErrorIsRendered ==
    err # Nil => View(M) # View([M EXCEPT !.err = Nil])

\* C15: a step that processes Resize(width, height) stores the delivered width
\* and height, leaves jobs, status, selectedIdx, the view, the held Review, the
\* scroll offset and the stored error unchanged and issues no command.
C15_ResizeChangesOnlySize ==
    [][\A sz \in Sizes :
          WindowSizeMsg(sz[1], sz[2]) =>
              /\ width' = sz[1]
              /\ height' = sz[2]
              /\ UNCHANGED <<jobs, status, selectedIdx, currentView,
                             currentReview, reviewScroll, err>>
              /\ cmd' = NoCmd
              /\ inflight' = inflight]_vars

\* the terminal was resized to 3x4 and a scrolled Review, a job list and a
\* stored error are still in place
C15_Witness ==
    /\ width = 3
    /\ height = 4
    /\ currentView = viewReview
    /\ reviewScroll > 0
    /\ err # Nil
    /\ jobs # <<>>
    /\ selectedIdx > 0
    /\ cmd = NoCmd

\* a Tick is processed and fetch-jobs and fetch-status are issued with it
TickIssuesFetches ==
    /\ TickMsg
    /\ Count(cmd', "fetchJobs") = 1
    /\ Count(cmd', "fetchStatus") = 1

\* C16: until the program quits exactly one Tick is armed or awaiting delivery,
\* whatever failures, keys or view changes occur; hence, with timer events
\* delivered fairly, fetch-jobs and fetch-status are issued again and again
\* (as long as there is room again and again for two more fetches in flight),
\* also after a FetchFailed.
C16_OneTickAndPollingGoesOn ==
    /\ [](~quit => inflight["tick"] = 1)
    /\ ([]<>(Pending + 2 <= MaxPending))
           => (<>quit \/ []<><<TickIssuesFetches>>_vars)

\* a tick has re-armed the timer on the Review screen after a fetch failed
C16_Witness ==
    /\ ~quit
    /\ inflight["tick"] = 1
    /\ cmd = <<tick, fetchJobs, fetchStatus>>
    /\ err = Ptr(ErrTransport)
    /\ currentView = viewReview

\* C17: whenever the Queue screen is active no Review is held and the scroll
\* offset is 0.
C17_QueueHoldsNoReview ==
    currentView = viewQueue => (currentReview = Nil /\ reviewScroll = 0)

\* the Queue screen is active with the selection moved down a job list, a
\* stored error and a fetch-review still in flight
C17_Witness ==
    /\ currentView = viewQueue
    /\ currentReview = Nil
    /\ reviewScroll = 0
    /\ selectedIdx > 0
    /\ err # Nil
    /\ inflight["fetchReview"] > 0

\* C18: when the Review screen is rendered, at any stored width and height,
\* the slice [start, end) of the wrapped lines has 0 <= start <= end <= len(lines)
\* with start not past the last line, and a footer "[A-B of N lines]" that is
\* written has 1 <= A <= B <= N.
C18_ReviewSliceAndFooter ==
    (currentView = viewReview /\ currentReview # Nil) =>
        LET win == ReviewWindow(M)
        IN  /\ 0 <= win.start
            /\ win.start <= win.end
            /\ win.end <= win.n
            /\ win.start <= Max(0, win.n - 1)
            /\ ReviewFooterShown(M) =>
                   /\ 1 <= win.start + 1
                   /\ win.start + 1 <= win.end
                   /\ win.end <= win.n

\* C20: rendering the Queue screen ends without a runtime failure in every
\* reachable state and at every stored width and height: every index into the
\* job list is inside it and every count given to strings.Repeat is >= 0.
C20_QueueRenderCompletes ==
    ~(currentView = viewReview /\ currentReview # Nil) =>
        /\ Len(jobs) # 0 =>
               /\ RuleCount(width) >= 0
               /\ \A i \in QueueRowIndices(M) :
                      /\ i \in 0..(Len(jobs) - 1)
                      /\ Padding(jobs[i + 1].Status) > 0
                             => ~RepeatPanics(Padding(jobs[i + 1].Status))
        /\ View(M) # PanicFrame

\* C19: after esc or q has closed the Review screen the Queue screen stays
\* until "enter" is pressed again: a step from Queue to Review is an "enter"
\* step or follows an "enter" pressed since the Queue screen last became
\* active, whatever fetches are still in flight.
C19_ReviewOpensOnlyAfterEnter ==
    [][(currentView = viewQueue /\ currentView' = viewReview)
          => (KeyEnter \/ enterPressed)]_vars

====
